---- MODULE Spec2Model ----
(***************************************************************************)
(* A model of src/app.rs: the router of App, the counter signal of Home,   *)
(* the three flags of ParentChildCommunication and the asynchronous loader *)
(* of Fetch (fetch_character behind a local resource), with the JSON       *)
(* decoding of the Data / Amiibo structs.                                  *)
(***************************************************************************)
EXTENDS Integers, Sequences, FiniteSets, TLC

\* ---------------------------------------------------------------- bounds
\* Mounts of Fetch over one run of the application.
MaxMounts == 2
\* Longest "amiibo" array of a response body.
MaxRecords == 2
\* Clicks on the Home buttons while requests are outstanding (Spec).
AppClicks == 2
\* Clicks on the Home buttons when Home is observed alone (SpecHome).
MaxClicks == 44
\* Clicks on the three buttons of ParentChildCommunication when it is
\* observed alone (SpecFlags).
MaxToggles == 7

\* <ProgressBar max=200 .../>
ProgressMax == 200

\* ---------------------------------------------------------------- routes
HomePath == ""
FlagsPath == "parent_child_communication"
FetchPath == "fetch"
Routes ==
  {HomePath, "text_input", "control_flow", FlagsPath,
   "pass_children", FetchPath}

\* ------------------------------------------------------ JSON on the wire
\* A JSON scalar is tagged with its JSON type; a JSON object is a function
\* from the keys it holds to their values.
Str(s) == [t |-> "string", v |-> s]
Num(s) == [t |-> "number", v |-> s]

\* The six fields of struct Amiibo, all of type String.
Fields == {"amiiboSeries", "character", "gameSeries", "head", "image", "name"}

Mario ==
  [amiiboSeries |-> Str("Super Mario Bros."), character |-> Str("Mario"),
   gameSeries |-> Str("Super Mario"), head |-> Str("00000000"),
   image |-> Str("http://x/img.png"), name |-> Str("Mario")]
\* A second record, as the service sends it: with keys Amiibo does not name.
Kart ==
  [amiiboSeries |-> Str("Mario Kart"), character |-> Str("Mario"),
   gameSeries |-> Str("Mario Kart"), head |-> Str("00000001"),
   image |-> Str("http://x/kart.png"), name |-> Str("Mario - Kart"),
   tail |-> Str("00000002"), type |-> Str("Figure")]
\* A record without the key "name".
NoName == [f \in Fields \ {"name"} |-> Mario[f]]
\* A record whose "head" is a JSON number.
NumericHead == [Mario EXCEPT !.head = Num("0")]

WireRecords == {Mario, Kart, NoName, NumericHead}

SeqsUpTo(S, n) == UNION {[1..k -> S] : k \in 0..n}

\* A response body: text that is not JSON, a JSON object without the key
\* "amiibo" (the service's own error object), an object whose "amiibo" is not
\* an array, or an object whose "amiibo" is an array of objects.
NoBody == [kind |-> "none", amiibo |-> <<>>]
NotJson == [kind |-> "not_json", amiibo |-> <<>>]
NoAmiibo == [kind |-> "object_without_amiibo", amiibo |-> <<>>]
AmiiboNotArray == [kind |-> "amiibo_not_array", amiibo |-> <<>>]
Envelope(s) == [kind |-> "envelope", amiibo |-> s]

Bodies ==
  {NotJson, NoAmiibo, AmiiboNotArray}
    \cup {Envelope(s) : s \in SeqsUpTo(WireRecords, MaxRecords)}
Statuses == {200, 404, 500}

\* The responses drawn while several loaders and the rest of the application
\* run together.
AppBodies ==
  {NotJson, Envelope(<<>>), Envelope(<<Kart, Mario>>), Envelope(<<Mario, NoName>>)}
AppStatuses == {200, 404}

\* ------------------------------------------------------------- decoding
\* serde's derived Deserialize for Amiibo: every field present and a string;
\* unknown keys are skipped.
AmiiboDecodes(w) ==
  /\ Fields \subseteq DOMAIN w
  /\ \A f \in Fields : w[f].t = "string"
DeserializeAmiibo(w) == [f \in Fields |-> w[f].v]

\* JsonData, had it skipped the records that do not decode.
JsonDataLenient(b) ==
  IF b.kind = "envelope"
  THEN [ok |-> TRUE,
        amiibo |-> [k \in 1..Len(SelectSeq(b.amiibo, AmiiboDecodes)) |->
                     DeserializeAmiibo(SelectSeq(b.amiibo, AmiiboDecodes)[k])]]
  ELSE [ok |-> FALSE, amiibo |-> <<>>]

\* Response::json::<Data>(): Ok(Data) or Err.
JsonData(b) ==
  IF /\ b.kind = "envelope"
     /\ \A k \in 1..Len(b.amiibo) : AmiiboDecodes(b.amiibo[k])
  THEN [ok |-> TRUE,
        amiibo |-> [k \in 1..Len(b.amiibo) |-> DeserializeAmiibo(b.amiibo[k])]]
  ELSE [ok |-> FALSE, amiibo |-> <<>>]

\* ------------------------------------------------- the resource's value
\* A Result<Vec<Amiibo>> that may not be there yet: the output of the
\* fetch_character future, and character_series.read(cx), which is None,
\* Some(Ok(records)) or Some(Err(e)).
Pending == [state |-> "Pending", records |-> <<>>, error |-> ""]
Ready(recs) == [state |-> "Ready", records |-> recs, error |-> ""]
Failed(e) == [state |-> "Failed", records |-> <<>>, error |-> e]

\* ---------------------------------------------------------------- state
VARIABLES
  route,             \* the route the Router shows
  value,             \* Home: the counter signal
  plus,              \* clicks on "+" since Home was mounted
  minus,             \* clicks on "-" since Home was mounted
  object_cover,      \* ParentChildCommunication: the three flags
  object_scale_down,
  object_contain,
  cover_clicks,      \* clicks on "Object Cover" since it was mounted
  scale_down_clicks, \* clicks on "Object Scale Down" since it was mounted
  contain_clicks,    \* clicks on "Object Contain" since it was mounted
  mounts,            \* how many times Fetch has been mounted
  pc,                \* per loader: where its fetch_character future stands
  mounted,           \* per loader: its scope is alive
  requests,          \* per loader: GET requests issued
  status,            \* per loader: HTTP status received (0: none)
  body,              \* per loader: response body received
  result,            \* per loader: what its fetch_character future resolved to
  character_series   \* per loader: the resource's value

vars ==
  <<route, value, plus, minus, object_cover, object_scale_down,
    object_contain, cover_clicks, scale_down_clicks, contain_clicks, mounts,
    pc, mounted, requests, status, body, result, character_series>>

Loaders == 1..MaxMounts
homeVars == <<value, plus, minus>>
flagVars ==
  <<object_cover, object_scale_down, object_contain, cover_clicks,
    scale_down_clicks, contain_clicks>>
loaderVars ==
  <<mounts, pc, mounted, requests, status, body, result, character_series>>

\* fetch_character, whole: what the future resolves to for a given outcome
\* of send() and a given body. The status is not consulted.
fetch_character(sent, b) ==
  IF ~sent THEN Failed("transport")
  ELSE IF JsonData(b).ok THEN Ready(JsonData(b).amiibo)
  ELSE Failed("decode")

RECURSIVE Distinct(_)
Distinct(s) ==
  IF s = <<>> THEN <<>>
  ELSE LET h == Distinct(SubSeq(s, 1, Len(s) - 1))
       IN  IF \E k \in 1..Len(h) : h[k] = s[Len(s)] THEN h
           ELSE Append(h, s[Len(s)])

\* character_series_view, had it shown each gameSeries once.
character_series_view_distinct(i) ==
  IF mounted[i] /\ character_series[i].state = "Ready"
  THEN Distinct([k \in 1..Len(character_series[i].records) |->
                  character_series[i].records[k].gameSeries])
  ELSE <<>>

\* character_series_view, had it shown the error as an item.
character_series_view_error(i) ==
  IF mounted[i] /\ character_series[i].state = "Ready"
  THEN [k \in 1..Len(character_series[i].records) |->
          character_series[i].records[k].gameSeries]
  ELSE IF mounted[i] /\ character_series[i].state = "Failed"
  THEN <<character_series[i].error>>
  ELSE <<>>

\* The <li> texts of character_series_view for loader i.
character_series_view(i) ==
  IF mounted[i] /\ character_series[i].state = "Ready"
  THEN [k \in 1..Len(character_series[i].records) |->
          character_series[i].records[k].gameSeries]
  ELSE <<>>

\* ----------------------------------------------------------------- boot
\* Fetch(cx): create_local_resource starts the fetcher at once.
MountFetch ==
  /\ mounts' = mounts + 1
  /\ pc' = [pc EXCEPT ![mounts + 1] = "send"]
  /\ mounted' = [mounted EXCEPT ![mounts + 1] = TRUE]
  /\ requests' = [requests EXCEPT ![mounts + 1] = @ + 1]
  /\ UNCHANGED <<status, body, result, character_series>>

\* The page loaded at route r.
Boot(r) ==
  /\ route = r
  /\ value = 0 /\ plus = 0 /\ minus = 0
  /\ object_cover = FALSE /\ object_scale_down = FALSE
  /\ object_contain = FALSE
  /\ cover_clicks = 0 /\ scale_down_clicks = 0 /\ contain_clicks = 0
  /\ mounts = (IF r = FetchPath THEN 1 ELSE 0)
  /\ pc = [i \in Loaders |-> IF r = FetchPath /\ i = 1 THEN "send" ELSE "unmounted"]
  /\ mounted = [i \in Loaders |-> r = FetchPath /\ i = 1]
  /\ requests = [i \in Loaders |-> IF r = FetchPath /\ i = 1 THEN 1 ELSE 0]
  /\ status = [i \in Loaders |-> 0]
  /\ body = [i \in Loaders |-> NoBody]
  /\ result = [i \in Loaders |-> Pending]
  /\ character_series = [i \in Loaders |-> Pending]

Init == \E r \in Routes : Boot(r)

\* -------------------------------------------------------------- actions
\* The Router shows another route: the scope of the view it leaves is
\* disposed, the view of the new route is built.
Navigate(r) ==
  /\ r # route
  /\ r = FetchPath => mounts < MaxMounts
  /\ route' = r
  /\ value' = 0 /\ plus' = 0 /\ minus' = 0
  /\ object_cover' = FALSE /\ object_scale_down' = FALSE
  /\ object_contain' = FALSE
  /\ cover_clicks' = 0 /\ scale_down_clicks' = 0 /\ contain_clicks' = 0
  /\ IF r = FetchPath THEN MountFetch
     ELSE IF route = FetchPath
     THEN /\ mounted' = [mounted EXCEPT ![mounts] = FALSE]
          /\ UNCHANGED <<mounts, pc, requests, status, body, result,
                         character_series>>
     ELSE UNCHANGED loaderVars

\* Increment, had the click waited for the requests in flight.
IncrementBlocking(limit) ==
  /\ route = HomePath
  /\ plus + minus < limit
  /\ \A i \in Loaders : pc[i] \notin {"send", "json"}
  /\ value' = value + 5
  /\ plus' = plus + 1
  /\ UNCHANGED <<route, minus>>
  /\ UNCHANGED <<loaderVars, flagVars>>

\* Increment, had the counter been clamped to the progress bar's max.
IncrementClamped(limit) ==
  /\ route = HomePath
  /\ plus + minus < limit
  /\ value' = (IF value + 5 > ProgressMax THEN ProgressMax ELSE value + 5)
  /\ plus' = plus + 1
  /\ UNCHANGED <<route, minus>>
  /\ UNCHANGED <<loaderVars, flagVars>>

\* Home: on:click of "+" and of "-".
Increment(limit) ==
  /\ route = HomePath
  /\ plus + minus < limit
  /\ value' = value + 5
  /\ plus' = plus + 1
  /\ UNCHANGED <<route, minus>>
  /\ UNCHANGED <<loaderVars, flagVars>>

Decrement(limit) ==
  /\ route = HomePath
  /\ plus + minus < limit
  /\ value' = value - 5
  /\ minus' = minus + 1
  /\ UNCHANGED <<route, plus>>
  /\ UNCHANGED <<loaderVars, flagVars>>

\* ClickObjectContain, had the context carried the setter of object_cover.
ClickObjectContainMiswired(limit) ==
  /\ route = FlagsPath
  /\ cover_clicks + scale_down_clicks + contain_clicks < limit
  /\ object_cover' = ~object_cover
  /\ contain_clicks' = contain_clicks + 1
  /\ UNCHANGED <<object_scale_down, object_contain, cover_clicks,
                 scale_down_clicks>>
  /\ UNCHANGED <<route, homeVars, loaderVars>>

\* ObjectCover: on:click of the button, through the prop
\* setter=set_object_cover.
ClickObjectCover(limit) ==
  /\ route = FlagsPath
  /\ cover_clicks + scale_down_clicks + contain_clicks < limit
  /\ object_cover' = ~object_cover
  /\ cover_clicks' = cover_clicks + 1
  /\ UNCHANGED <<object_scale_down, object_contain, scale_down_clicks,
                 contain_clicks>>
  /\ UNCHANGED <<route, homeVars, loaderVars>>

\* ObjectScaleDown: the on:click the parent sets on the component.
ClickObjectScaleDown(limit) ==
  /\ route = FlagsPath
  /\ cover_clicks + scale_down_clicks + contain_clicks < limit
  /\ object_scale_down' = ~object_scale_down
  /\ scale_down_clicks' = scale_down_clicks + 1
  /\ UNCHANGED <<object_cover, object_contain, cover_clicks, contain_clicks>>
  /\ UNCHANGED <<route, homeVars, loaderVars>>

\* ObjectContain: on:click of the button, through the setter that
\* provide_context(cx, ObjectContainContext(set_object_contain)) hands down.
ClickObjectContain(limit) ==
  /\ route = FlagsPath
  /\ cover_clicks + scale_down_clicks + contain_clicks < limit
  /\ object_contain' = ~object_contain
  /\ contain_clicks' = contain_clicks + 1
  /\ UNCHANGED <<object_cover, object_scale_down, cover_clicks,
                 scale_down_clicks>>
  /\ UNCHANGED <<route, homeVars, loaderVars>>

\* Resolve, had a failure started the fetcher again.
ResolveAndRefetch(i, res) ==
  /\ pc' = [pc EXCEPT ![i] = IF res.state = "Failed" THEN "send" ELSE "done"]
  /\ result' = [result EXCEPT ![i] = res]
  /\ character_series' =
       IF mounted[i] THEN [character_series EXCEPT ![i] = res]
       ELSE character_series

\* Resolve, had the value gone to the slot of the loader now on screen.
ResolveShared(i, res) ==
  /\ pc' = [pc EXCEPT ![i] = "done"]
  /\ result' = [result EXCEPT ![i] = res]
  /\ character_series' =
       IF mounted[mounts] THEN [character_series EXCEPT ![mounts] = res]
       ELSE character_series

\* The resource's task after `fut.await`: the value is set if the resource's
\* scope is still alive, and dropped with the scope otherwise.
Resolve(i, res) ==
  /\ pc' = [pc EXCEPT ![i] = "done"]
  /\ result' = [result EXCEPT ![i] = res]
  /\ character_series' =
       IF mounted[i] THEN [character_series EXCEPT ![i] = res]
       ELSE character_series

\* SendFails, had a transport error issued the request again.
SendFailsRetry(i) ==
  /\ pc[i] = "send"
  /\ requests[i] < 3
  /\ requests' = [requests EXCEPT ![i] = @ + 1]
  /\ UNCHANGED <<route, mounts, pc, mounted, status, body, result,
                 character_series>>
  /\ UNCHANGED <<homeVars, flagVars>>

\* send().await? with a transport error: the future resolves to Err.
SendFails(i) ==
  /\ pc[i] = "send"
  /\ Resolve(i, fetch_character(FALSE, NoBody))
  /\ UNCHANGED <<route, mounts, mounted, requests, status, body>>
  /\ UNCHANGED <<homeVars, flagVars>>

\* send().await? with a response of status s: on to .json::<Data>().
SendResponds(i, s) ==
  /\ pc[i] = "send"
  /\ pc' = [pc EXCEPT ![i] = "json"]
  /\ status' = [status EXCEPT ![i] = s]
  /\ UNCHANGED <<route, mounts, mounted, requests, body, result,
                 character_series>>
  /\ UNCHANGED <<homeVars, flagVars>>

\* JsonSettles, had the records been added to those of the load before.
JsonSettlesAccumulating(i, b) ==
  /\ pc[i] = "json"
  /\ body' = [body EXCEPT ![i] = b]
  /\ LET res == fetch_character(TRUE, b)
         prev == IF i > 1 THEN result[i - 1].records ELSE <<>>
     IN  Resolve(i, IF res.state = "Ready" THEN Ready(prev \o res.records)
                    ELSE res)
  /\ UNCHANGED <<route, mounts, mounted, requests, status>>
  /\ UNCHANGED <<homeVars, flagVars>>

\* .json::<Data>().await? with body b, and Ok(res.amiibo).
JsonSettles(i, b) ==
  /\ pc[i] = "json"
  /\ body' = [body EXCEPT ![i] = b]
  /\ Resolve(i, fetch_character(TRUE, b))
  /\ UNCHANGED <<route, mounts, mounted, requests, status>>
  /\ UNCHANGED <<homeVars, flagVars>>

\* ------------------------------------------------------- specifications
\* The application: routes, Home's buttons and up to MaxMounts loaders.
Next ==
  \/ \E r \in Routes : Navigate(r)
  \/ Increment(AppClicks)
  \/ Decrement(AppClicks)
  \/ ClickObjectCover(AppClicks)
  \/ ClickObjectScaleDown(AppClicks)
  \/ ClickObjectContain(AppClicks)
  \/ \E i \in Loaders : SendFails(i)
  \/ \E i \in Loaders, s \in AppStatuses : SendResponds(i, s)
  \/ \E i \in Loaders, b \in AppBodies : JsonSettles(i, b)

Spec == Init /\ [][Next]_vars

\* One activation of the loader, over every response of Statuses x Bodies.
NextLoad ==
  \/ \E r \in Routes \ {FetchPath} : Navigate(r)
  \/ SendFails(1)
  \/ \E s \in Statuses : SendResponds(1, s)
  \/ \E b \in Bodies : JsonSettles(1, b)

SpecLoad == Boot(FetchPath) /\ [][NextLoad]_vars

\* Home alone.
NextHome ==
  \/ Increment(MaxClicks)
  \/ Decrement(MaxClicks)

SpecHome == Boot(HomePath) /\ [][NextHome]_vars

\* ParentChildCommunication alone.
NextFlags ==
  \/ ClickObjectCover(MaxToggles)
  \/ ClickObjectScaleDown(MaxToggles)
  \/ ClickObjectContain(MaxToggles)

SpecFlags == Boot(FlagsPath) /\ [][NextFlags]_vars

\* ------------------------------------------------------------ fairness
\* The application with the scheduling the runtime gives: a fetch the
\* browser has started settles (with a response or an error), the body of a
\* response that has arrived is read to its end, and the woken task runs.
Fairness ==
  \A i \in Loaders :
    /\ WF_vars(SendFails(i) \/ \E s \in AppStatuses : SendResponds(i, s))
    /\ WF_vars(\E b \in AppBodies : JsonSettles(i, b))

SpecFair == Spec /\ Fairness

\* ---------------------------------------------------------------- claims
InFlight(i) == pc[i] \in {"send", "json"}
Settled(r) == r.state \in {"Ready", "Failed"}

\* C1: a loader's FetchResult starts Pending, changes at most once, from
\* Pending to Ready or to Failed, and only in the step in which that loader's
\* own network call completes; once Ready or Failed it never changes.
C1_SingleTransition ==
  /\ [](\A i \in Loaders : pc[i] # "done" => character_series[i] = Pending)
  /\ [][\A i \in Loaders :
          character_series'[i] # character_series[i] =>
            /\ character_series[i] = Pending
            /\ Settled(character_series'[i])
            /\ InFlight(i) /\ pc'[i] = "done"
            /\ character_series'[i] = result'[i]]_vars

C1_Witness ==
  \E i, j \in Loaders :
    /\ pc[i] = "done" /\ character_series[i].state = "Ready"
    /\ pc[j] = "done" /\ character_series[j].state = "Failed"

\* What the claims call a success status: 200..299.
IsSuccess(s) == s >= 200 /\ s <= 299

\* C2: a response whose status is not a success status ends in Failed,
\* whatever its body.
C2_NonSuccessFails ==
  \A i \in Loaders :
    (pc[i] = "done" /\ status[i] # 0 /\ ~IsSuccess(status[i])) =>
      /\ result[i].state = "Failed"
      /\ character_series[i].state # "Ready"

\* The claims' well-formed envelope: an "amiibo" array whose every record
\* holds the six fields as strings.
HasField(w, f) == f \in DOMAIN w /\ w[f].t = "string"
WellFormed(b) ==
  /\ b.kind = "envelope"
  /\ \A k \in 1..Len(b.amiibo) : \A f \in Fields : HasField(b.amiibo[k], f)

\* C3: a well-formed envelope of N records gives Ready with N records, and
\* the list shows N items, item k being the gameSeries of record k.
C3_ReadyRendersAll ==
  \A i \in Loaders :
    (pc[i] = "done" /\ WellFormed(body[i])) =>
      /\ result[i].state = "Ready"
      /\ Len(result[i].records) = Len(body[i].amiibo)
      /\ mounted[i] =>
           /\ character_series[i] = result[i]
           /\ Len(character_series_view(i)) = Len(body[i].amiibo)
           /\ \A k \in 1..Len(body[i].amiibo) :
                character_series_view(i)[k] = body[i].amiibo[k]["gameSeries"].v

C3_Witness ==
  \E i \in Loaders :
    /\ pc[i] = "done" /\ mounted[i] /\ WellFormed(body[i])
    /\ Len(body[i].amiibo) >= 2
    /\ character_series_view(i)[1] # character_series_view(i)[2]

\* C4: a body without "amiibo", or with a record lacking one of the six
\* fields, gives Failed for the whole batch: never Ready, no item shown.
LacksField(b) ==
  /\ b.kind = "envelope"
  /\ \E k \in 1..Len(b.amiibo) : \E f \in Fields : f \notin DOMAIN b.amiibo[k]

C4_NoPartialDecode ==
  \A i \in Loaders :
    (pc[i] = "done" /\ (body[i] = NoAmiibo \/ LacksField(body[i]))) =>
      /\ result[i].state = "Failed"
      /\ character_series[i].state # "Ready"
      /\ character_series_view(i) = <<>>

C4_Witness ==
  \E i \in Loaders :
    /\ pc[i] = "done" /\ mounted[i] /\ LacksField(body[i])
    /\ \E k \in 1..Len(body[i].amiibo) : AmiiboDecodes(body[i].amiibo[k])
    /\ character_series[i].state = "Failed"

\* C5: a loader that has started has issued exactly one GET, whatever became
\* of it; one that has not started has issued none.
C5_OneRequest ==
  \A i \in Loaders :
    requests[i] = (IF pc[i] = "unmounted" THEN 0 ELSE 1)

C5_Witness ==
  \E i, j \in Loaders :
    /\ pc[i] = "done" /\ result[i].state = "Failed" /\ requests[i] = 1
    /\ pc[j] = "done" /\ result[j].state = "Ready" /\ requests[j] = 1

\* C6: the list is empty whenever the FetchResult is Pending or Failed, and
\* from a Failed state on it is empty in every later state.
C6_EmptyUnlessReady ==
  /\ [](\A i \in Loaders :
          character_series[i].state \in {"Pending", "Failed"} =>
            character_series_view(i) = <<>>)
  /\ [][\A i \in Loaders :
          character_series[i].state = "Failed" =>
            (character_series_view(i) = <<>>)']_vars

C6_Witness ==
  \E i \in Loaders :
    mounted[i] /\ pc[i] = "done" /\ character_series[i].state = "Failed"

\* C7: two loads that received the same response hold equal results: the
\* result depends on the response alone.
SameResponse(i, j) ==
  /\ pc[i] = "done" /\ pc[j] = "done"
  /\ status[i] = status[j] /\ body[i] = body[j]

C7_Idempotent ==
  \A i, j \in Loaders :
    SameResponse(i, j) =>
      /\ result[i] = result[j]
      /\ (Settled(character_series[i]) /\ Settled(character_series[j])) =>
           character_series[i] = character_series[j]

C7_Witness ==
  \E i, j \in Loaders :
    /\ i # j /\ SameResponse(i, j)
    /\ character_series[i].state = "Ready" /\ character_series[j].state = "Ready"
    /\ Len(character_series[i].records) = 2

\* C8: the settling of one loader's call leaves every other loader's slot as
\* it was, and a loader always starts Pending with a request of its own,
\* whatever the earlier loaders hold.
C8_Independent ==
  /\ [](\A i \in Loaders : pc[i] = "send" =>
          character_series[i] = Pending /\ requests[i] = 1)
  /\ [][\A i, j \in Loaders :
          (i # j /\ InFlight(i) /\ pc'[i] = "done") =>
            character_series'[j] = character_series[j]]_vars
  /\ [][\A i \in Loaders :
          (pc[i] = "unmounted" /\ pc'[i] # "unmounted") =>
            /\ pc'[i] = "send" /\ mounted'[i]
            /\ character_series'[i] = Pending]_vars

C8_Witness ==
  \E i, j \in Loaders :
    /\ i # j
    /\ Settled(character_series[i])
    /\ pc[j] = "done" /\ mounted[j] /\ Settled(character_series[j])
    /\ character_series[i].state # character_series[j].state

\* C9: while a request is in flight the rest of the application goes on:
\* any other route can be shown and Home's buttons act; and every request in
\* flight settles, to Ready or to Failed, whatever is interleaved.
C9_NothingBlocked ==
  /\ [](\A i \in Loaders : InFlight(i) =>
          /\ \A r \in Routes \ {route, FetchPath} : ENABLED Navigate(r)
          /\ (route = HomePath /\ plus + minus < AppClicks) =>
               (ENABLED Increment(AppClicks) /\ ENABLED Decrement(AppClicks)))
  /\ \A i \in Loaders :
       InFlight(i) ~>
         (pc[i] = "done" /\ Settled(result[i])
            /\ (mounted[i] => character_series[i] = result[i]))

C9_Witness ==
  /\ route = HomePath /\ plus > 0 /\ minus > 0
  /\ \E i \in Loaders : InFlight(i)

Odd(n) == n % 2 = 1

C11_TogglesOwnFlag ==
  /\ [](/\ object_cover = Odd(cover_clicks)
        /\ object_scale_down = Odd(scale_down_clicks)
        /\ object_contain = Odd(contain_clicks))
  /\ [][/\ cover_clicks' = cover_clicks + 1 =>
             /\ object_cover' = ~object_cover
             /\ UNCHANGED <<object_scale_down, object_contain>>
        /\ scale_down_clicks' = scale_down_clicks + 1 =>
             /\ object_scale_down' = ~object_scale_down
             /\ UNCHANGED <<object_cover, object_contain>>
        /\ contain_clicks' = contain_clicks + 1 =>
             /\ object_contain' = ~object_contain
             /\ UNCHANGED <<object_cover, object_scale_down>>]_vars

C11_Witness ==
  /\ cover_clicks = 2 /\ ~object_cover
  /\ scale_down_clicks = 3 /\ object_scale_down
  /\ contain_clicks = 1 /\ object_contain
====
